---------------------------- MODULE Spec2Model ----------------------------
(***************************************************************************)
(* Model of the "ask a question about a document" tools:                   *)
(*   - the HTTP server (src/unnamed/part_001): POST /ask behind multer,    *)
(*   - the command-line tool (src/unnamed/part_000): processMarkdownAndAsk,*)
(*   - the browser form (src/CPC99/public/script.js).                      *)
(*                                                                         *)
(* Text is a sequence of one-character strings; the fixed pieces of a      *)
(* template literal and of a message are single multi-character elements.  *)
(* The Korean literals of the source are written here by an ASCII name,    *)
(* with the source line in the comment.  A character that a string literal *)
(* here cannot hold is written by its code point, "U+000B".  An optional   *)
(* value (undefined in JavaScript) is None or Some(v).                     *)
(***************************************************************************)
EXTENDS Naturals, Sequences, FiniteSets

VARIABLES http, cli, ui, cmp

vars == <<http, cli, ui, cmp>>

-----------------------------------------------------------------------------
(* Bounds of the model.                                                    *)

\* longest question / provider answer text drawn as an input
MaxStrLen == 2
\* longest document (in bytes) drawn as an input
MaxDocLen == 2
\* clicks of the submit button explored in the browser form
MaxClicks == 3

-----------------------------------------------------------------------------
(* Values.                                                                 *)

None == <<>>
Some(v) == <<v>>

\* sequences over S of length at most n
SeqsUpTo(S, n) == UNION {[1..k -> S] : k \in 0..n}

\* a space and a letter; and two texts with a vertical tab, white space that
\* is not a space
Chars == {" ", "a"}
Strings ==
    SeqsUpTo(Chars, MaxStrLen) \cup {<<"U+000B">>, <<"U+000B", "a", "U+000B">>}

\* 'a', the two bytes of U+00E9 (0xC3 0xA9), each of which alone is not
\* valid UTF-8
Bytes == {97, 195, 169}
Buffers == SeqsUpTo(Bytes, MaxDocLen)

\* String.prototype.trim strips the WhiteSpace and LineTerminator code points
\* of ECMAScript from both ends: TAB, VT, FF, SP, NBSP, ZWNBSP, the space
\* separators (Zs), and LF, CR, LS, PS
WhiteSpace ==
    {"\t", "U+000B", "\f", " ", "U+00A0", "U+FEFF",
     "U+1680", "U+2000", "U+2001", "U+2002", "U+2003", "U+2004", "U+2005",
     "U+2006", "U+2007", "U+2008", "U+2009", "U+200A", "U+202F", "U+205F",
     "U+3000",
     "\n", "\r", "U+2028", "U+2029"}

RECURSIVE TrimStart(_)
TrimStart(s) ==
    IF s # <<>> /\ Head(s) \in WhiteSpace THEN TrimStart(Tail(s)) ELSE s

RECURSIVE TrimEnd(_)
TrimEnd(s) ==
    IF s # <<>> /\ s[Len(s)] \in WhiteSpace
    THEN TrimEnd(SubSeq(s, 1, Len(s) - 1))
    ELSE s

\* s.trim()
Trim(s) == TrimEnd(TrimStart(s))

\* JavaScript truthiness of an optional string: undefined and "" are falsy
Truthy(opt) == opt # None /\ opt[1] # <<>>

\* a UTF-8 continuation byte, 0x80..0xBF
IsContinuation(b) == b >= 128 /\ b <= 191

\* the lead byte of a two-byte sequence, 0xC2..0xDF
IsLead2(b) == b >= 194 /\ b <= 223

\* the code point of a two-byte sequence, as text
CodePoint2(b1, b2) ==
    IF (b1 - 192) * 64 + (b2 - 128) = 233 THEN "U+00E9" ELSE "U+OTHER"

\* Buffer.prototype.toString('utf-8') and fs.readFile(.., 'utf-8'): the
\* decoder never throws; every byte that does not take part in a well-formed
\* sequence becomes U+FFFD.  One- and two-byte sequences are decoded, which
\* covers Bytes; a byte that would start a longer sequence is not drawn.
RECURSIVE DecodeUtf8DropInvalid(_)
DecodeUtf8DropInvalid(bytes) ==
    IF bytes = <<>> THEN <<>>
    ELSE IF Head(bytes) < 128
         THEN <<IF Head(bytes) = 97 THEN "a" ELSE "U+ASCII">>
              \o DecodeUtf8DropInvalid(Tail(bytes))
    ELSE IF IsLead2(Head(bytes)) /\ Len(bytes) >= 2 /\ IsContinuation(bytes[2])
         THEN <<CodePoint2(bytes[1], bytes[2])>>
              \o DecodeUtf8DropInvalid(Tail(Tail(bytes)))
    ELSE DecodeUtf8DropInvalid(Tail(bytes))

RECURSIVE DecodeUtf8(_)
DecodeUtf8(bytes) ==
    IF bytes = <<>> THEN <<>>
    ELSE IF Head(bytes) < 128
         THEN <<IF Head(bytes) = 97 THEN "a" ELSE "U+ASCII">>
              \o DecodeUtf8(Tail(bytes))
    ELSE IF IsLead2(Head(bytes)) /\ Len(bytes) >= 2 /\ IsContinuation(bytes[2])
         THEN <<CodePoint2(bytes[1], bytes[2])>> \o DecodeUtf8(Tail(Tail(bytes)))
    ELSE <<"U+FFFD">> \o DecodeUtf8(Tail(bytes))

\* whether the bytes are well-formed UTF-8
RECURSIVE ValidUtf8(_)
ValidUtf8(bytes) ==
    IF bytes = <<>> THEN TRUE
    ELSE IF Head(bytes) < 128 THEN ValidUtf8(Tail(bytes))
    ELSE IF IsLead2(Head(bytes)) /\ Len(bytes) >= 2 /\ IsContinuation(bytes[2])
         THEN ValidUtf8(Tail(Tail(bytes)))
    ELSE FALSE

-----------------------------------------------------------------------------
(* The completion provider (openai.chat.completions.create), an            *)
(* environment: it returns a completion or throws.                         *)

Contents == {None} \cup {Some(s) : s \in Strings}
Choices ==
    {[message |-> None]} \cup {[message |-> Some([content |-> c])] : c \in Contents}
GoodChoice == [message |-> Some([content |-> Some(<<"a">>)])]
ChoiceLists ==
    {<<>>} \cup {<<c>> : c \in Choices}
    \cup {<<[message |-> None], GoodChoice>>,
          <<[message |-> Some([content |-> Some(<<" ">>)])], GoodChoice>>,
          <<GoodChoice, [message |-> None]>>}
Completions ==
    {[kind |-> "completion", choices |-> None]}
    \cup {[kind |-> "completion", choices |-> Some(l)] : l \in ChoiceLists}
ProviderErrors ==
    {[kind |-> "error", message |-> <<"Connection error.">>,
      stack |-> <<"Error: Connection error.", "    at OpenAI.makeRequest">>],
     [kind |-> "error", message |-> <<"401 Incorrect API key provided">>,
      stack |-> <<"Error: 401 Incorrect API key provided", "    at APIError.generate">>]}
Outcomes == Completions \cup ProviderErrors

SystemMessage ==
    [role |-> "system",
     content |-> <<"You are a helpful assistant designed to answer questions based on the provided text context.">>]

\* the argument of openai.chat.completions.create
CreateArgs(model, finalPrompt) ==
    [model |-> model,
     messages |-> <<SystemMessage, [role |-> "user", content |-> finalPrompt]>>]

\* completion.choices?.[0]?.message?.content?.trim(): None is undefined
ResponseContentNoTrim(completion) ==
    IF completion.choices = None THEN None
    ELSE IF completion.choices[1] = <<>> THEN None
    ELSE IF completion.choices[1][1].message = None THEN None
    ELSE IF completion.choices[1][1].message[1].content = None THEN None
    ELSE Some(completion.choices[1][1].message[1].content[1])

ResponseContent(completion) ==
    IF completion.choices = None THEN None
    ELSE IF completion.choices[1] = <<>> THEN None
    ELSE IF completion.choices[1][1].message = None THEN None
    ELSE IF completion.choices[1][1].message[1].content = None THEN None
    ELSE Some(Trim(completion.choices[1][1].message[1].content[1]))

-----------------------------------------------------------------------------
(* The HTTP server, src/unnamed/part_001.                                  *)

\* limits.fileSize of the multer instance
FileSizeLimit == 100 * 1024 * 1024

DefaultModel == <<"gpt-3.5-turbo">>

\* the literal of line 46 ("please enter a question")
MsgMissingQuestion == <<"MSG_L46_ENTER_A_QUESTION">>
\* the literal of line 49 ("please upload a markdown or text file")
MsgMissingFile == <<"MSG_L49_UPLOAD_A_FILE">>
\* the literal of line 27 ("only Markdown(.md) or Text(.txt) files can be uploaded")
MsgFileFilter == <<"MSG_L27_ONLY_MD_OR_TXT">>
\* the literal of line 84 ("received an empty response from the API")
MsgEmptyResponse == <<"MSG_L84_EMPTY_RESPONSE_FROM_API">>
\* the prefix of line 93 ("error while processing: ")
PrefixProcessing == <<"MSG_L93_ERROR_WHILE_PROCESSING: ">>
\* the prefix of line 107 ("file upload error: ")
PrefixUpload == <<"MSG_L107_FILE_UPLOAD_ERROR: ">>

MimeTypes == {"text/markdown", "text/plain", "application/pdf", "text/x-markdown"}

\* An uploaded file part: its declared media type, its content and its byte
\* length.  A part longer than the ceiling is drawn with its length alone
\* (FileSizeLimit + 1): multer never hands its content to the handler.
UploadedFiles ==
    {[mimetype |-> m, buffer |-> b, size |-> Len(b)] : m \in MimeTypes, b \in Buffers}
    \cup {[mimetype |-> m, buffer |-> b, size |-> FileSizeLimit + 1] :
            m \in MimeTypes, b \in Buffers}

ModelFields == {None, Some(<<>>), Some(<<"gpt-4o">>)}

\* a POST /ask submission: the multipart fields question and model, and the
\* file part markdownFile
Submissions ==
    [question : {None} \cup {Some(s) : s \in Strings},
     model : ModelFields,
     markdownFile : {None} \cup {Some(f) : f \in UploadedFiles}]

EmptySubmission == [question |-> None, model |-> None, markdownFile |-> None]

\* the state between two requests: every entity is request-scoped
HttpIdle ==
    [pc |-> "idle",
     sub |-> EmptySubmission,
     file |-> None,
     err |-> None,
     calls |-> <<>>,
     outcome |-> None,
     responses |-> <<>>,
     stages |-> <<>>]

\* a process that is not the server
HttpOff == [HttpIdle EXCEPT !.pc = "off"]

\* fileFilter: cb(null, true) exactly for the two media types
fileFilter(file) == file.mimetype = "text/markdown" \/ file.mimetype = "text/plain"

\* what upload.single('markdownFile') passes to next(): None, or the error
uploadErrorFilterOnly(part) ==
    IF part = None THEN None
    ELSE IF ~fileFilter(part[1])
         THEN Some([name |-> "Error", message |-> MsgFileFilter])
    ELSE None

uploadErrorSizeFirst(part) ==
    IF part = None THEN None
    ELSE IF part[1].size > FileSizeLimit
         THEN Some([name |-> "MulterError", message |-> <<"File too large">>])
    ELSE IF ~fileFilter(part[1])
         THEN Some([name |-> "Error", message |-> MsgFileFilter])
    ELSE None

uploadError(part) ==
    IF part = None THEN None
    ELSE IF ~fileFilter(part[1])
         THEN Some([name |-> "Error", message |-> MsgFileFilter])
    ELSE IF part[1].size > FileSizeLimit
         THEN Some([name |-> "MulterError", message |-> <<"File too large">>])
    ELSE None

Response(status, body) == [status |-> status, body |-> body]

\* the delimiter lines of both templates ("--- markdown content start ---",
\* "--- markdown content end ---")
StartMarker == "--- MARKDOWN START ---"
EndMarker == "--- MARKDOWN END ---"

\* the user message of the handler (lines 60-67)
FinalPromptHttp(markdownContext, question) ==
    <<"PROMPT_L60_ANSWER_FROM_THE_MARKDOWN", "\n", "\n", StartMarker, "\n">>
    \o markdownContext
    \o <<"\n", EndMarker, "\n", "\n", "QUESTION_L66: ">>
    \o question
    \o <<"\n">>

\* the catch block of the handler: status 500 and the error's message
CatchResponseWithStack(error) ==
    Response(500, [error |-> PrefixProcessing \o error.message \o error.stack])

CatchResponse(error) == Response(500, [error |-> PrefixProcessing \o error.message])

\* the error-handling middleware: status 400 for every error passed to next()
ErrorMiddlewareResponse(err) ==
    IF err.name = "MulterError"
    THEN Response(400, [error |-> PrefixUpload \o err.message])
    ELSE Response(400, [error |-> err.message])

\* a request arrives
Receive ==
    /\ http.pc = "idle"
    /\ \E s \in Submissions :
         http' = [http EXCEPT !.pc = "upload", !.sub = s]
    /\ UNCHANGED <<cli, ui, cmp>>

\* upload.single('markdownFile'): sets req.file and calls next(), or calls
\* next(err)
UploadSingle ==
    /\ http.pc = "upload"
    /\ http' = IF uploadError(http.sub.markdownFile) # None
               THEN [http EXCEPT !.pc = "errmw",
                                 !.err = uploadError(http.sub.markdownFile),
                                 !.stages = Append(@, "Validate")]
               ELSE [http EXCEPT !.pc = "handler",
                                 !.file = http.sub.markdownFile,
                                 !.stages = Append(@, "Validate")]
    /\ UNCHANGED <<cli, ui, cmp>>

\* app.use((err, req, res, next) => ...)
ErrorMiddleware ==
    /\ http.pc = "errmw"
    /\ http' = [http EXCEPT !.pc = "done",
                            !.responses = Append(@, ErrorMiddlewareResponse(http.err[1]))]
    /\ UNCHANGED <<cli, ui, cmp>>

\* the handler with the two validation returns lost: after answering 400 it
\* falls into the try block, where reading the missing value throws and the
\* catch block answers again
AskHandlerNoReturn ==
    /\ http.pc = "handler"
    /\ http' =
         IF ~Truthy(http.sub.question) \/ http.file = None
         THEN [http EXCEPT
                 !.pc = "done",
                 !.responses = @ \o
                    <<Response(400, [error |-> IF ~Truthy(http.sub.question)
                                               THEN MsgMissingQuestion
                                               ELSE MsgMissingFile]),
                      Response(500, [error |-> PrefixProcessing
                                                 \o <<"Cannot read properties of undefined">>])>>]
         ELSE [http EXCEPT
                 !.pc = "awaiting",
                 !.stages = @ \o <<"Compose", "Call">>,
                 !.calls = Append(@, CreateArgs(
                     IF Truthy(http.sub.model) THEN http.sub.model[1] ELSE DefaultModel,
                     FinalPromptHttp(DecodeUtf8(http.file[1].buffer),
                                     http.sub.question[1])))]
    /\ UNCHANGED <<cli, ui, cmp>>

\* the handler up to its await: validation, decoding, prompt, provider call
AskHandler ==
    /\ http.pc = "handler"
    /\ http' =
         IF ~Truthy(http.sub.question)
         THEN [http EXCEPT
                 !.pc = "done",
                 !.responses = Append(@, Response(400, [error |-> MsgMissingQuestion]))]
         ELSE IF http.file = None
         THEN [http EXCEPT
                 !.pc = "done",
                 !.responses = Append(@, Response(400, [error |-> MsgMissingFile]))]
         ELSE [http EXCEPT
                 !.pc = "awaiting",
                 !.stages = @ \o <<"Compose", "Call">>,
                 !.calls = Append(@, CreateArgs(
                     IF Truthy(http.sub.model) THEN http.sub.model[1] ELSE DefaultModel,
                     FinalPromptHttp(DecodeUtf8(http.file[1].buffer),
                                     http.sub.question[1])))]
    /\ UNCHANGED <<cli, ui, cmp>>

\* the provider call settles: a completion, or a thrown error
ProviderSettle ==
    /\ http.pc = "awaiting"
    /\ \E o \in Outcomes :
         http' = [http EXCEPT !.pc = "settled", !.outcome = Some(o)]
    /\ UNCHANGED <<cli, ui, cmp>>

\* the handler after its await: the response mapping and the catch block
AskResume ==
    /\ http.pc = "settled"
    /\ http' =
         IF http.outcome[1].kind = "error"
         THEN [http EXCEPT !.pc = "done",
                           !.responses = Append(@, CatchResponse(http.outcome[1]))]
         ELSE IF ~Truthy(ResponseContent(http.outcome[1]))
         THEN [http EXCEPT
                 !.pc = "done",
                 !.stages = Append(@, "Map"),
                 !.responses = Append(@, CatchResponse(
                     [name |-> "Error", message |-> MsgEmptyResponse,
                      stack |-> <<"Error", "    at /ask">>]))]
         ELSE [http EXCEPT
                 !.pc = "done",
                 !.stages = Append(@, "Map"),
                 !.responses = Append(@, Response(200,
                     [answer |-> ResponseContent(http.outcome[1])[1]]))]
    /\ UNCHANGED <<cli, ui, cmp>>

\* the response is sent and the request's entities are discarded
Discard ==
    /\ http.pc = "done"
    /\ http' = HttpIdle
    /\ UNCHANGED <<cli, ui, cmp>>

HttpNext ==
    \/ Receive
    \/ UploadSingle
    \/ ErrorMiddleware
    \/ AskHandler
    \/ ProviderSettle
    \/ AskResume
    \/ Discard

-----------------------------------------------------------------------------
(* The command-line tool, src/unnamed/part_000.                            *)

\* the environment of one run: the arguments, the credential, the input
\* path on disk and what the output path holds before the run
InputFiles ==
    {[kind |-> "ENOENT", bytes |-> <<>>], [kind |-> "EACCES", bytes |-> <<>>]}
    \cup {[kind |-> "file", bytes |-> b] : b \in Buffers}

OldContent == <<"o", "l", "d">>

CliRuns ==
    [question : Strings,
     model : {DefaultModel, <<"gpt-4o">>},
     apiKey : {None, Some("sk-key")},
     inputFile : InputFiles,
     outBefore : {None, Some(OldContent)}]

CliState(run, pc) ==
    [pc |-> pc,
     question |-> run.question,
     model |-> run.model,
     apiKey |-> run.apiKey,
     inputFile |-> run.inputFile,
     outBefore |-> run.outBefore,
     outFile |-> run.outBefore,
     wrote |-> FALSE,
     calls |-> <<>>,
     outcome |-> None,
     responseContent |-> None,
     stderr |-> <<>>,
     stages |-> <<>>,
     exitCode |-> None]

CliOff ==
    CliState([question |-> <<>>, model |-> DefaultModel, apiKey |-> None,
              inputFile |-> [kind |-> "ENOENT", bytes |-> <<>>],
              outBefore |-> None], "off")

\* process.exit(1) after console.error(diagnostic)
ExitWith(diagnostic) ==
    [cli EXCEPT !.pc = "exited", !.stderr = Append(@, diagnostic), !.exitCode = Some(1)]

\* the user message of the tool (lines 80-85): the question is not part of it
FinalPromptCli(markdownContext, question) ==
    <<"\n", StartMarker, "\n">>
    \o markdownContext
    \o <<"\n", EndMarker, "\n", "PROMPT_L84_WRITE_THE_PROBLEM_IN_C99", "\n">>

\* processMarkdownAndAsk up to its first await: the credential check
CliCheckKey ==
    /\ cli.pc = "start"
    /\ cli' = IF cli.apiKey = None
              THEN ExitWith("Error: OPENAI_API_KEY environment variable is not set.")
              ELSE [cli EXCEPT !.pc = "reading", !.stages = Append(@, "Validate")]
    /\ UNCHANGED <<http, ui, cmp>>

\* fs.readFile settles; on success the prompt is composed and the provider
\* called
CliReadFile ==
    /\ cli.pc = "reading"
    /\ cli' =
         IF cli.inputFile.kind = "ENOENT"
         THEN ExitWith("Error: Input file not found")
         ELSE IF cli.inputFile.kind # "file"
         THEN ExitWith("Error reading input file")
         ELSE [cli EXCEPT
                 !.pc = "awaiting",
                 !.stages = @ \o <<"Compose", "Call">>,
                 !.calls = Append(@, CreateArgs(cli.model,
                     FinalPromptCli(DecodeUtf8(cli.inputFile.bytes), cli.question)))]
    /\ UNCHANGED <<http, ui, cmp>>

\* the provider call settles
CliProviderSettle ==
    /\ cli.pc = "awaiting"
    /\ \E o \in Outcomes :
         cli' = [cli EXCEPT !.pc = "settled", !.outcome = Some(o)]
    /\ UNCHANGED <<http, ui, cmp>>

\* after the await: the response mapping (lines 104-116)
CliResume ==
    /\ cli.pc = "settled"
    /\ cli' =
         IF cli.outcome[1].kind = "error"
         THEN ExitWith("Error calling OpenAI API")
         ELSE IF ~Truthy(ResponseContent(cli.outcome[1]))
         THEN [ExitWith("Error: Received no content in the API response.")
                 EXCEPT !.stages = Append(@, "Map")]
         ELSE [cli EXCEPT !.pc = "mkdir",
                          !.stages = Append(@, "Map"),
                          !.responseContent = ResponseContent(cli.outcome[1])]
    /\ UNCHANGED <<http, ui, cmp>>

\* fs.mkdir(outputDir, {recursive: true}) settles
CliMkdir ==
    /\ cli.pc = "mkdir"
    /\ \E ok \in BOOLEAN :
         cli' = IF ok
                THEN [cli EXCEPT !.pc = "writing", !.stages = Append(@, "Write")]
                ELSE [ExitWith("Error writing output file")
                        EXCEPT !.stages = Append(@, "Write")]
    /\ UNCHANGED <<http, ui, cmp>>

\* fs.writeFile settles.  It resolves: the text is written (wrote).  Or it
\* rejects: opening the path failed and the path stays as it was; or the path
\* was opened (created or truncated) and a write failed after `written`
\* characters of the text, or close failed after all of them, and what was
\* written stays in the file
CliWriteFile ==
    /\ cli.pc = "writing"
    /\ \/ cli' = [cli EXCEPT !.pc = "finishing",
                             !.outFile = cli.responseContent,
                             !.wrote = TRUE]
       \/ cli' = ExitWith("Error writing output file")
       \/ \E written \in 0..Len(cli.responseContent[1]) :
            cli' = [ExitWith("Error writing output file")
                      EXCEPT !.outFile =
                               Some(SubSeq(cli.responseContent[1], 1, written))]
    /\ UNCHANGED <<http, ui, cmp>>

\* the IIFE resumes, prints the last line, and the process ends
CliFinish ==
    /\ cli.pc = "finishing"
    /\ cli' = [cli EXCEPT !.pc = "exited", !.exitCode = Some(0)]
    /\ UNCHANGED <<http, ui, cmp>>

CliNext ==
    \/ CliCheckKey
    \/ CliReadFile
    \/ CliProviderSettle
    \/ CliResume
    \/ CliMkdir
    \/ CliWriteFile
    \/ CliFinish

-----------------------------------------------------------------------------
(* The two prompt templates side by side, on the same inputs.              *)

CmpOff ==
    [pc |-> "off", doc |-> <<>>, q1 |-> <<>>, q2 |-> <<>>,
     http1 |-> <<>>, http2 |-> <<>>, cli1 |-> <<>>, cli2 |-> <<>>]

\* both entry points compose the prompt of (doc, q1) and of (doc, q2)
ComposeBoth ==
    /\ cmp.pc = "input"
    /\ cmp' = [cmp EXCEPT
                 !.pc = "composed",
                 !.http1 = FinalPromptHttp(DecodeUtf8(cmp.doc), cmp.q1),
                 !.http2 = FinalPromptHttp(DecodeUtf8(cmp.doc), cmp.q2),
                 !.cli1 = FinalPromptCli(DecodeUtf8(cmp.doc), cmp.q1),
                 !.cli2 = FinalPromptCli(DecodeUtf8(cmp.doc), cmp.q2)]
    /\ UNCHANGED <<http, cli, ui>>

-----------------------------------------------------------------------------
(* The browser form, src/CPC99/public/script.js.                           *)

\* what fetch('/ask') can settle to: a rejection (network failure), or a
\* response whose body parses as JSON (Some) or does not (None)
FetchResults ==
    {[kind |-> "rejected", ok |-> FALSE, status |-> 0, json |-> None]}
    \cup {[kind |-> "response", ok |-> TRUE, status |-> 200, json |-> j] :
            j \in {None, Some([answer |-> <<"a">>]), Some([answer |-> <<"a", "a">>])}}
    \cup {[kind |-> "response", ok |-> FALSE, status |-> st, json |-> j] :
            st \in {400, 500},
            j \in {None, Some([error |-> <<>>]), Some([error |-> <<"server message">>])}}

UiStart ==
    [questionInput |-> <<>>,
     fileSelected |-> FALSE,
     fileName |-> "NO_FILE_SELECTED",
     disabled |-> FALSE,
     outputArea |-> <<>>,
     status |-> [message |-> <<>>, type |-> "info"],
     handlers |-> {},
     started |-> 0,
     clicks |-> 0,
     shownFrom |-> 0]

\* showStatus(message, type)
showStatus(u, message, type) == [u EXCEPT !.status = [message |-> message, type |-> type]]

\* the user edits the question field
TypeQuestion ==
    /\ \E s \in Strings :
         /\ s # ui.questionInput
         /\ ui' = [ui EXCEPT !.questionInput = s]
    /\ UNCHANGED <<http, cli, cmp>>

\* the user picks or clears the file; the change listener shows its name
ChooseFile ==
    /\ \E chosen \in BOOLEAN :
         /\ chosen # ui.fileSelected
         /\ ui' = [ui EXCEPT !.fileSelected = chosen,
                             !.fileName = IF chosen THEN "doc.md" ELSE "NO_FILE_SELECTED"]
    /\ UNCHANGED <<http, cli, cmp>>

\* the click listener with line 36 (submitBtn.disabled = true) lost
SubmitClickNoDisable ==
    /\ ~ui.disabled
    /\ ui.clicks < MaxClicks
    /\ ui' =
         IF Trim(ui.questionInput) = <<>>
         THEN [showStatus(ui, <<"MSG_L26_ENTER_A_QUESTION">>, "error")
                 EXCEPT !.clicks = @ + 1]
         ELSE IF ~ui.fileSelected
         THEN [showStatus(ui, <<"MSG_L30_CHOOSE_A_FILE">>, "error")
                 EXCEPT !.clicks = @ + 1]
         ELSE [showStatus(ui, <<"MSG_L35_PROCESSING">>, "loading")
                 EXCEPT !.clicks = @ + 1,
                        !.outputArea = <<>>,
                        !.shownFrom = 0,
                        !.started = @ + 1,
                        !.handlers = @ \cup {[id |-> ui.started + 1,
                                              pc |-> "fetching",
                                              question |-> Trim(ui.questionInput),
                                              response |-> None]}]
    /\ UNCHANGED <<http, cli, cmp>>

\* a click on the submit button (a disabled button dispatches no click): the
\* listener up to its await of fetch
SubmitClick ==
    /\ ~ui.disabled
    /\ ui.clicks < MaxClicks
    /\ ui' =
         IF Trim(ui.questionInput) = <<>>
         THEN [showStatus(ui, <<"MSG_L26_ENTER_A_QUESTION">>, "error")
                 EXCEPT !.clicks = @ + 1]
         ELSE IF ~ui.fileSelected
         THEN [showStatus(ui, <<"MSG_L30_CHOOSE_A_FILE">>, "error")
                 EXCEPT !.clicks = @ + 1]
         ELSE [showStatus(ui, <<"MSG_L35_PROCESSING">>, "loading")
                 EXCEPT !.clicks = @ + 1,
                        !.disabled = TRUE,
                        !.outputArea = <<>>,
                        !.shownFrom = 0,
                        !.started = @ + 1,
                        !.handlers = @ \cup {[id |-> ui.started + 1,
                                              pc |-> "fetching",
                                              question |-> Trim(ui.questionInput),
                                              response |-> None]}]
    /\ UNCHANGED <<http, cli, cmp>>

\* the catch block and the finally block of the listener, run for handler h
CatchFinally(h, message) ==
    [showStatus(ui, <<"MSG_L68_ERROR: ">> \o message, "error")
       EXCEPT !.outputArea = <<>>,
              !.shownFrom = 0,
              !.disabled = FALSE,
              !.handlers = @ \ {h}]

\* fetch settles: a rejection goes to catch and finally; a response goes to
\* the await of response.json()
FetchSettle ==
    /\ \E h \in ui.handlers, r \in FetchResults :
         /\ h.pc = "fetching"
         /\ ui' = IF r.kind = "rejected"
                  THEN CatchFinally(h, <<"Failed to fetch">>)
                  ELSE [ui EXCEPT !.handlers =
                          (@ \ {h}) \cup {[h EXCEPT !.pc = "json", !.response = Some(r)]}]
    /\ UNCHANGED <<http, cli, cmp>>

\* the message thrown for a non-2xx response (lines 56-57)
HttpErrorMessage(r) ==
    IF r.json = None THEN <<"HTTP_ERROR_L56: ", r.status, "statusText">>
    ELSE IF r.json[1].error # <<>> THEN r.json[1].error
    ELSE <<"HTTP_ERROR_L57: ", r.status>>

\* response.json() settles: the rest of the listener through finally
JsonSettle ==
    /\ \E h \in ui.handlers :
         /\ h.pc = "json"
         /\ ui' =
              IF ~h.response[1].ok
              THEN CatchFinally(h, HttpErrorMessage(h.response[1]))
              ELSE IF h.response[1].json = None
              THEN CatchFinally(h, <<"Unexpected token in JSON">>)
              ELSE [showStatus(ui, <<"MSG_L63_ANSWER_READY">>, "success")
                      EXCEPT !.outputArea = h.response[1].json[1].answer,
                             !.shownFrom = h.id,
                             !.disabled = FALSE,
                             !.handlers = @ \ {h}]
    /\ UNCHANGED <<http, cli, cmp>>

UiNext ==
    \/ TypeQuestion
    \/ ChooseFile
    \/ SubmitClick
    \/ FetchSettle
    \/ JsonSettle

-----------------------------------------------------------------------------
(* Specifications.                                                         *)

\* the server, started with its credential, serving one request after another
ServerInit ==
    /\ http = HttpIdle
    /\ cli = CliOff
    /\ ui = UiStart
    /\ cmp = CmpOff

\* one run of the command-line tool
CliInit ==
    /\ http = HttpOff
    /\ \E run \in CliRuns : cli = CliState(run, "start")
    /\ ui = UiStart
    /\ cmp = CmpOff

\* a process is the server or a run of the command-line tool
Init == ServerInit \/ CliInit

Next == HttpNext \/ CliNext

Spec == Init /\ [][Next]_vars

\* every step of a request is run by the event loop once it is enabled, and
\* the provider call is assumed to settle
FairSpec ==
    /\ Spec
    /\ WF_vars(UploadSingle)
    /\ WF_vars(ErrorMiddleware)
    /\ WF_vars(AskHandler)
    /\ WF_vars(ProviderSettle)
    /\ WF_vars(AskResume)

\* the browser form
UiInit ==
    /\ http = HttpOff
    /\ cli = CliOff
    /\ ui = UiStart
    /\ cmp = CmpOff

UiSpec == UiInit /\ [][UiNext]_vars

\* the two templates on the same (document, question) pairs
CmpInit ==
    /\ http = HttpOff
    /\ cli = CliOff
    /\ ui = UiStart
    /\ \E d \in Buffers, qa \in Strings, qb \in Strings :
         cmp = [CmpOff EXCEPT !.pc = "input", !.doc = d, !.q1 = qa, !.q2 = qb]

CmpSpec == CmpInit /\ [][ComposeBoth]_vars

-----------------------------------------------------------------------------
(* Properties of the HTTP pipeline.                                        *)

AllowedTypes == {"text/markdown", "text/plain"}

\* the upload of a submission is accepted: no file part, or one of an allowed
\* type within the ceiling
UploadAccepted(sub) ==
    \/ sub.markdownFile = None
    \/ /\ sub.markdownFile[1].mimetype \in AllowedTypes
       /\ sub.markdownFile[1].size <= FileSizeLimit

\* the question is absent, empty or whitespace only
QuestionBlank(q) == q = None \/ Trim(q[1]) = <<>>

\* the text of the first choice's message, None when there is none
FirstText(completion) ==
    IF completion.choices = None \/ completion.choices = Some(<<>>) THEN None
    ELSE LET first == completion.choices[1][1]
         IN  IF first.message = None THEN None ELSE first.message[1].content

\* the one response of a finished request
IsErrorResponse(r, status) ==
    r.status = status /\ DOMAIN r.body = {"error"} /\ r.body.error # <<>>

\* C1: a submission whose question is absent, empty or whitespace only, and
\* whose upload is accepted, never reaches the provider and is answered 400
\* with the missing-question message.
C1_BlankQuestionRejected ==
    (http.pc # "off" /\ QuestionBlank(http.sub.question)
        /\ UploadAccepted(http.sub)) =>
        /\ http.calls = <<>>
        /\ http.pc = "done" =>
             http.responses = <<Response(400, [error |-> MsgMissingQuestion])>>

\* C2: a document of a media type outside the allow-list, or longer than the
\* ceiling, is answered 400 with an error message and the provider is not
\* called; a provider call implies that the file passed both checks.
C2_UploadGate ==
    LET part == http.sub.markdownFile
        bad == part # None /\ ~UploadAccepted(http.sub)
    IN  /\ bad => http.calls = <<>>
        /\ (bad /\ http.pc = "done") =>
             Len(http.responses) = 1 /\ IsErrorResponse(http.responses[1], 400)
        /\ http.calls # <<>> =>
             /\ part # None
             /\ part[1].mimetype \in AllowedTypes
             /\ part[1].size <= FileSizeLimit

C2_Witness ==
    /\ http.pc = "done"
    /\ http.sub.markdownFile # None
    /\ http.sub.markdownFile[1].mimetype = "text/plain"
    /\ http.sub.markdownFile[1].size > FileSizeLimit
    /\ Truthy(http.sub.question)
    /\ http.responses[1].status = 400

\* C3: a completion without choices, or whose first message text is missing,
\* empty or whitespace only, ends in 500 with the empty-response message
\* (the command-line tool exits 1); a success carries the first message text
\* trimmed, and it is not empty.
C3_NeverEmptySuccess ==
    /\ (http.pc = "done" /\ http.outcome # None
           /\ http.outcome[1].kind = "completion") =>
          LET text == FirstText(http.outcome[1])
          IN  IF text = None \/ Trim(text[1]) = <<>>
              THEN http.responses =
                     <<Response(500, [error |-> PrefixProcessing \o MsgEmptyResponse])>>
              ELSE http.responses = <<Response(200, [answer |-> Trim(text[1])])>>
    /\ \A i \in DOMAIN http.responses :
          http.responses[i].status = 200 =>
             /\ http.responses[i].body.answer # <<>>
             /\ http.responses[i].body.answer = Trim(http.responses[i].body.answer)
    /\ (cli.pc \in {"mkdir", "writing", "finishing", "exited"} /\ cli.outcome # None
           /\ cli.outcome[1].kind = "completion") =>
          LET text == FirstText(cli.outcome[1])
          IN  IF text = None \/ Trim(text[1]) = <<>>
              THEN cli.exitCode = Some(1) /\ ~cli.wrote
              ELSE cli.responseContent = Some(Trim(text[1]))

C3_Witness ==
    /\ http.pc = "done"
    /\ http.outcome # None
    /\ http.outcome[1].kind = "completion"
    /\ FirstText(http.outcome[1]) = Some(<<" ", " ">>)
    /\ http.responses[1].status = 500

\* C4: the provider is called at most once per request, and when the call
\* fails the request ends in 500 whose message is the fixed prefix followed
\* by the failure's message text and nothing else.
C4_SingleAttempt ==
    /\ Len(http.calls) <= 1
    /\ (http.pc = "done" /\ http.outcome # None /\ http.outcome[1].kind = "error") =>
          /\ Len(http.calls) = 1
          /\ http.responses =
               <<Response(500, [error |-> PrefixProcessing \o http.outcome[1].message])>>

C4_Witness ==
    /\ http.pc = "done"
    /\ http.outcome # None
    /\ http.outcome[1].kind = "error"
    /\ Len(http.calls) = 1
    /\ http.responses[1].status = 500

Pipeline == <<"Validate", "Compose", "Call", "Map">>

IsPrefix(s, t) == Len(s) <= Len(t) /\ s = SubSeq(t, 1, Len(s))

\* the state part of C5
C5_Safety ==
    /\ IsPrefix(http.stages, Pipeline)
    /\ Len(http.responses) <= 1
    /\ http.pc = "done" <=> Len(http.responses) = 1
    /\ \A i \in DOMAIN http.responses :
         LET r == http.responses[i]
         IN  /\ \/ r.status = 200 /\ DOMAIN r.body = {"answer"}
                \/ r.status \in {400, 500} /\ DOMAIN r.body = {"error"}
             /\ r.status = 200 =>
                  /\ http.stages = Pipeline
                  /\ Len(http.calls) = 1
                  /\ http.outcome # None
                  /\ http.outcome[1].kind = "completion"
                  /\ FirstText(http.outcome[1]) # None
                  /\ Trim(FirstText(http.outcome[1])[1]) # <<>>
             /\ r.status = 400 => http.stages = <<"Validate">> /\ http.calls = <<>>
             /\ r.status = 500 =>
                  /\ Len(http.calls) = 1
                  /\ http.outcome # None
                  /\ http.outcome[1].kind = "error" => http.stages = SubSeq(Pipeline, 1, 3)

\* C5: a request runs Validate, Compose, Call, Map in this order and stops at
\* the first stage that fails; it sends exactly one response, 200 with an
\* answer or 400/500 with an error, 200 only after the provider returned
\* non-empty text; and once received it reaches that response.
C5_OneTerminalOutcome ==
    /\ []C5_Safety
    /\ (http.pc = "upload") ~> (http.pc = "done")

C5_Witness ==
    /\ http.pc = "done"
    /\ http.responses[1].status = 200
    /\ http.stages = Pipeline

-----------------------------------------------------------------------------
(* The order of the validation rules.                                      *)

\* rule 1: the question is present and non-empty
Rule1Violated(sub) == ~Truthy(sub.question)
\* rule 2: the file is present
Rule2Violated(sub) == sub.markdownFile = None
\* rule 3: the declared media type is in the allow-list
Rule3Violated(sub) ==
    sub.markdownFile # None /\ sub.markdownFile[1].mimetype \notin AllowedTypes
\* rule 4: the byte length is within the ceiling
Rule4Violated(sub) ==
    sub.markdownFile # None /\ sub.markdownFile[1].size > FileSizeLimit

MsgTooLarge == PrefixUpload \o <<"File too large">>

\* the error of the first violated rule in the order 1, 2, 3, 4
ErrorInOrder1234(sub) ==
    IF Rule1Violated(sub) THEN Some(MsgMissingQuestion)
    ELSE IF Rule2Violated(sub) THEN Some(MsgMissingFile)
    ELSE IF Rule3Violated(sub) THEN Some(MsgFileFilter)
    ELSE IF Rule4Violated(sub) THEN Some(MsgTooLarge)
    ELSE None

\* the error of the first violated rule in the order 3, 4, 1, 2
ErrorInOrder3412(sub) ==
    IF Rule3Violated(sub) THEN Some(MsgFileFilter)
    ELSE IF Rule4Violated(sub) THEN Some(MsgTooLarge)
    ELSE IF Rule1Violated(sub) THEN Some(MsgMissingQuestion)
    ELSE IF Rule2Violated(sub) THEN Some(MsgMissingFile)
    ELSE None

\* C6 as stated: the rules are applied in the order question, file present,
\* media type, size, and the error returned is that of the first rule
\* violated in this order.
C6_QuestionRuleFirst ==
    http.pc = "done" =>
        IF ErrorInOrder1234(http.sub) # None
        THEN http.responses =
               <<Response(400, [error |-> ErrorInOrder1234(http.sub)[1]])>>
        ELSE http.responses[1].status # 400

\* C6 as amended: the rules are applied in the order media type, size (the
\* upload middleware), then question, file present (the handler), and the
\* error returned is that of the first rule violated in this order.
C6_UploadRulesFirst ==
    http.pc = "done" =>
        IF ErrorInOrder3412(http.sub) # None
        THEN http.responses =
               <<Response(400, [error |-> ErrorInOrder3412(http.sub)[1]])>>
        ELSE http.responses[1].status # 400

C6_Witness ==
    /\ http.pc = "done"
    /\ Rule1Violated(http.sub)
    /\ Rule3Violated(http.sub)
    /\ Rule4Violated(http.sub)
    /\ http.responses = <<Response(400, [error |-> MsgFileFilter])>>

-----------------------------------------------------------------------------
(* The two prompt templates.                                               *)

\* prompt p holds the document text d between the two delimiter lines, and
\* the question q after the end delimiter
Embeds(p, d, q) ==
    \E i \in 1..Len(p) :
        /\ i + 3 + Len(d) <= Len(p)
        /\ p[i] = StartMarker
        /\ p[i + 1] = "\n"
        /\ SubSeq(p, i + 2, i + 1 + Len(d)) = d
        /\ p[i + 2 + Len(d)] = "\n"
        /\ p[i + 3 + Len(d)] = EndMarker
        /\ \E j \in (i + 4 + Len(d))..(Len(p) + 1) :
              /\ j + Len(q) - 1 <= Len(p)
              /\ SubSeq(p, j, j + Len(q) - 1) = q

\* C7: for every (document, question) both entry points compose the same
\* user message, which embeds the document between the delimiters followed
\* by the question; with the same document, different questions give
\* different prompts on either entry point.
C7_SameComposer ==
    cmp.pc = "composed" =>
        /\ Embeds(cmp.http1, DecodeUtf8(cmp.doc), cmp.q1)
        /\ Embeds(cmp.cli1, DecodeUtf8(cmp.doc), cmp.q1)
        /\ cmp.q1 # cmp.q2 => cmp.http1 # cmp.http2 /\ cmp.cli1 # cmp.cli2
        /\ cmp.cli1 = cmp.http1
        /\ cmp.cli2 = cmp.http2

-----------------------------------------------------------------------------
(* The command-line tool's exit status.                                    *)

\* a failure the run has met
CliFailure ==
    \/ cli.apiKey = None
    \/ Trim(cli.question) = <<>>
    \/ cli.inputFile.kind # "file"
    \/ cli.outcome # None /\ cli.outcome[1].kind = "error"
    \/ /\ cli.outcome # None
       /\ cli.outcome[1].kind = "completion"
       /\ (FirstText(cli.outcome[1]) = None
             \/ Trim(FirstText(cli.outcome[1])[1]) = <<>>)
    \/ cli.pc = "exited" /\ "Write" \in {cli.stages[i] : i \in DOMAIN cli.stages}
         /\ ~cli.wrote

\* C8: a run exits 0 exactly when the trimmed, non-empty answer was written
\* to the output path; on a missing credential, an empty or whitespace-only
\* question, an unreadable input, a failed provider call, an empty response
\* or a failed write it prints a diagnostic and exits non-zero; a failure
\* before the write stage leaves the output path as it was and runs no later
\* stage.
C8_CliExitContract ==
    cli.pc = "exited" =>
        /\ cli.exitCode = Some(0) <=> cli.wrote
        /\ cli.wrote =>
             /\ cli.outFile # None
             /\ cli.outFile[1] # <<>>
             /\ cli.outFile = Some(Trim(FirstText(cli.outcome[1])[1]))
        /\ CliFailure => cli.exitCode = Some(1) /\ cli.stderr # <<>>
        /\ (cli.exitCode = Some(1)
              /\ "Write" \notin {cli.stages[i] : i \in DOMAIN cli.stages}) =>
             cli.outFile = cli.outBefore /\ IsPrefix(cli.stages, Pipeline)

-----------------------------------------------------------------------------
(* Documents that are not valid UTF-8.                                     *)

UserContent(calls) == calls[1].messages[2].content

Elements(seq) == {seq[i] : i \in DOMAIN seq}

\* C9 as stated: a document that is not valid UTF-8 makes composition fail;
\* the request ends in 500, the tool exits non-zero, and the provider is not
\* called with a prompt built from it.
C9_InvalidUtf8Fails ==
    /\ (http.file # None /\ ~ValidUtf8(http.file[1].buffer)) =>
          /\ http.calls = <<>>
          /\ (http.pc = "done" /\ Truthy(http.sub.question)) =>
                http.responses[1].status = 500
    /\ (cli.pc # "off" /\ cli.inputFile.kind = "file"
           /\ ~ValidUtf8(cli.inputFile.bytes)) =>
          /\ cli.calls = <<>>
          /\ cli.pc = "exited" => cli.exitCode = Some(1)

\* C9 as amended: decoding never fails; the bytes outside a well-formed
\* sequence are decoded as U+FFFD, the provider is called once with the
\* prompt built from that text, and the request ends as the provider's
\* result decides (200 when it returns non-empty text).
C9_LenientDecoding ==
    /\ (http.pc \in {"awaiting", "settled", "done"} /\ http.file # None
           /\ Truthy(http.sub.question) /\ ~ValidUtf8(http.file[1].buffer)) =>
          /\ Len(http.calls) = 1
          /\ "U+FFFD" \in Elements(UserContent(http.calls))
          /\ (http.pc = "done" /\ http.outcome[1].kind = "completion"
                /\ FirstText(http.outcome[1]) # None
                /\ Trim(FirstText(http.outcome[1])[1]) # <<>>) =>
                http.responses[1].status = 200
    /\ (cli.pc \notin {"off", "start", "reading"} /\ cli.apiKey # None
           /\ cli.inputFile.kind = "file" /\ ~ValidUtf8(cli.inputFile.bytes)) =>
          /\ Len(cli.calls) = 1
          /\ "U+FFFD" \in Elements(UserContent(cli.calls))

C9_Witness ==
    /\ http.pc = "done"
    /\ http.file # None
    /\ http.file[1].buffer = <<195>>
    /\ http.responses[1].status = 200

-----------------------------------------------------------------------------
(* The submit button of the browser form.                                  *)

\* the state part of C10
C10_Inv ==
    /\ ui.disabled <=> ui.handlers # {}
    /\ Cardinality(ui.handlers) <= 1
    /\ ui.shownFrom \in {0, ui.started}
    /\ ui.handlers # {} => ui.outputArea = <<>>

\* the step part of C10: what a click does, and what the end of a request does
C10_Step ==
    /\ ui'.clicks # ui.clicks =>
         IF Trim(ui.questionInput) = <<>> \/ ~ui.fileSelected
         THEN /\ ui'.started = ui.started
              /\ ui'.handlers = ui.handlers
              /\ ~ui'.disabled
         ELSE /\ ui'.started = ui.started + 1
              /\ ui'.disabled
              /\ \E h \in ui'.handlers : h.id = ui'.started /\ h.pc = "fetching"
    /\ (ui.handlers # {} /\ ui'.handlers = {}) => ~ui'.disabled

\* C10: the button is disabled exactly while a request started by a click is
\* in flight; a click with a blank question or no file sends nothing and
\* leaves it enabled; it is re-enabled after every outcome; at most one
\* request is in flight and the output area never shows the answer of an
\* earlier request once a later one has started.
C10_SubmitButton == []C10_Inv /\ [][C10_Step]_vars

C10_Witness ==
    /\ ui.started = 2
    /\ ui.disabled
    /\ \E h \in ui.handlers : h.id = 2 /\ h.pc = "json"

=============================================================================
